---- MODULE Spec2Model ----
(***************************************************************************)
(* The cached, paginated retrieval of pybliometrics: Base.__init__ and     *)
(* _check_file_age of superclasses/base.py.  One "run" is one construction *)
(* of a Base object against one cache path.  The blocking calls of         *)
(* get_content() cut a run into steps: Begin runs lines 40-61 up to the    *)
(* first request, Receive runs from one response to the next request (or   *)
(* to the end of __init__), FetchFail is get_content() raising.            *)
(* Time is in seconds; a file's text is the sequence of its segments       *)
(* between "\n" characters.                                                *)
(***************************************************************************)
EXTENDS Integers, Sequences, FiniteSets, TLC

\* seconds per day, the divisor of _check_file_age and get_cache_file_age
Day == 86400

\* Ceiling of the size check.  The value is set in pybliometrics.utils
\* (imported at base.py:9); the model scales it down.
SEARCH_MAX_ENTRIES == 3

\* the clock advances in half days, at most MaxTicks times
MaxTicks == 4
\* integer refresh values are 0..MaxAge
MaxAge == 2
\* params["start"] of a call is 0..MaxStart
MaxStart == 1
\* params["count"] of a call is 1..MaxCount
MaxCount == 2

TickStep == Day \div 2
\* largest result count the simulated service reports
MaxTotal == SEARCH_MAX_ENTRIES + 1

Runs == {1, 2}

VARIABLES
    now,     \* time(): the wall clock, in seconds
    file,    \* file[r]: the cache file of run r's path
    run,     \* run[r]: the object under construction and the locals of __init__
    search,  \* search[r]: ("query" in params) and not not_query, fixed per path
    active,  \* the runs that are called in this behaviour
    meta,    \* what the process has seen of response headers so far
    metrics  \* the CountryLookup object and its metrics call under way

vars == <<now, file, run, search, active, meta, metrics>>

----------------------------------------------------------------------------
\* Values

None == [has |-> FALSE, v |-> 0]
Some(x) == [has |-> TRUE, v |-> x]

\* the refresh argument: a bool, an int, a non-numeric string, or None
BoolVal(b) == [t |-> "bool", b |-> b, v |-> 0]
IntVal(k) == [t |-> "int", b |-> FALSE, v |-> k]
StrVal == [t |-> "str", b |-> FALSE, v |-> 0]
NoneVal == [t |-> "none", b |-> FALSE, v |-> 0]

RefreshValues ==
    {BoolVal(b) : b \in BOOLEAN} \cup {IntVal(k) : k \in 0..MaxAge}
        \cup {StrVal, NoneVal}

\* self._json: unset, a list of entries, the str "" or one document
JUnset == [t |-> "unset", v |-> <<>>]
JList(s) == [t |-> "list", v |-> s]
JStr == [t |-> "str", v |-> <<>>]
JDoc(d) == [t |-> "doc", v |-> <<d>>]

NoExc == [kind |-> "none", count |-> 0, ceiling |-> 0]
Exc(k) == [kind |-> k, count |-> 0, ceiling |-> 0]

\* segments of a text: "", one compact JSON document, or anything else
EmptySeg == [k |-> "empty", doc |-> 0]
BadSeg == [k |-> "bad", doc |-> 0]

NoFile == [exists |-> FALSE, mtime |-> 0, text |-> <<>>]

\* the entry Scopus sends along with an empty result set
ErrEntry == 0
RetrievalDocs == {1, 2}

\* a header value: the decimal string of k
DecStr(k) == [t |-> "str", digits |-> k]

\* resp.headers of the k-th response of a run: each request uses up one of
\* the key's requests, and the quota is reset at a fixed time
ResponseHeaders(k) ==
    [remaining |-> DecStr(MaxTotal + 1 - k), reset |-> DecStr(Day)]

\* nothing seen yet
NoMeta == [completed |-> FALSE, last |-> None]

\* no CountryLookup call under way
IdleMetrics ==
    [pc |-> "idle", id |-> "", method |-> "", metricType |-> "",
     yearRange |-> "", country_ids |-> "", collabOk |-> TRUE,
     request |-> None]

Range(a, b) == [k \in 1..(IF b >= a THEN b - a + 1 ELSE 0) |-> a + k - 1]
Min(a, b) == IF a <= b THEN a ELSE b

----------------------------------------------------------------------------
\* Pure functions of the code

\* TruncDiv with the quotient rounded down instead
TruncDiv_Floor(a, b) == a \div b

\* int(x) of a quotient: Python's int() truncates toward zero
TruncDiv(a, b) == IF a >= 0 THEN a \div b ELSE -((-a) \div b)

\* Ceil with the quotient rounded down
Ceil_Floor(n, c) == n \div c

\* math.ceil(n / c) for n >= 0, c >= 1
Ceil(n, c) == (n + c - 1) \div c

\* int(self._refresh)
IntConv(x) ==
    CASE x.t = "bool" -> [ok |-> TRUE, v |-> IF x.b THEN 1 ELSE 0, exc |-> "none"]
      [] x.t = "int" -> [ok |-> TRUE, v |-> x.v, exc |-> "none"]
      [] x.t = "str" -> [ok |-> FALSE, v |-> 0, exc |-> "ValueError"]
      [] OTHER -> [ok |-> FALSE, v |-> 0, exc |-> "TypeError"]

\* lines 40-44: the try/except around int(self._refresh) catches ValueError only
RefreshCheck(x) ==
    LET c == IntConv(x) IN
    IF c.ok THEN "ok"
    ELSE IF c.exc = "ValueError" THEN "ValueError"
    ELSE c.exc

\* days = int(diff / 86400) + 1
AgeDays(t, mtime) == TruncDiv(t - mtime, Day) + 1

\* CheckFileAge without the isinstance(refresh, bool) test
CheckFileAge_NoBoolTest(refresh, f, t) ==
    IF ~f.exists THEN [refresh |-> TRUE, mod_ts |-> None]
    ELSE [refresh |-> IntConv(refresh).v < AgeDays(t, f.mtime),
          mod_ts |-> Some(f.mtime)]

\* _check_file_age
CheckFileAge(refresh, f, t) ==
    IF ~f.exists THEN [refresh |-> TRUE, mod_ts |-> None]
    ELSE IF refresh.t = "bool" THEN [refresh |-> refresh.b, mod_ts |-> Some(f.mtime)]
    ELSE [refresh |-> IntConv(refresh).v < AgeDays(t, f.mtime),
          mod_ts |-> Some(f.mtime)]

\* json.dumps(item, separators=(',', ':'))
Dumps(item) == [k |-> "json", doc |-> item]

\* "\n".join(text)
JoinLines(lines) == IF lines = <<>> THEN <<EmptySeg>> ELSE lines

\* NonEmptyLines without the test `if line`
NonEmptyLines_NoFilter(text) == text

\* [... for line in text.split("\n") if line]
NonEmptyLines(text) == SelectSeq(text, LAMBDA s : s.k # "empty")

\* json.loads of a whole text: newlines around the one document are skipped
LoadsText(text) ==
    LET ls == NonEmptyLines(text) IN
    IF Len(ls) = 1 /\ ls[1].k = "json" THEN Some(ls[1].doc) ELSE None

\* lines 53-59: the cache hit
ReadCache(isSearch, text) ==
    IF isSearch
    THEN LET ls == NonEmptyLines(text) IN
         IF \E i \in 1..Len(ls) : ls[i].k # "json"
         THEN [ok |-> FALSE, json |-> JUnset, n |-> None]
         ELSE [ok |-> TRUE, json |-> JList([i \in 1..Len(ls) |-> ls[i].doc]),
               n |-> Some(Len(ls))]
    ELSE LET d == LoadsText(text) IN
         IF d.has THEN [ok |-> TRUE, json |-> JDoc(d.v), n |-> None]
         ELSE [ok |-> FALSE, json |-> JUnset, n |-> None]

\* lines 112-113: fname.write_text("\n".join(dumps(item) for item in data))
WriteCache(items, t) ==
    [exists |-> TRUE, mtime |-> t,
     text |-> JoinLines([i \in 1..Len(items) |-> Dumps(items[i])])]

----------------------------------------------------------------------------
\* The run record

IdleRun ==
    [pc |-> "idle", refresh |-> BoolVal(FALSE), policy |-> BoolVal(FALSE),
     download |-> TRUE,
     params |-> [start |-> 0, count |-> 1, hasCursor |-> FALSE, cursor |-> 0],
     mdate |-> None, json |-> JUnset, n |-> None, header |-> None,
     data |-> None, hdr |-> None, next |-> None, i |-> 0, n_chunks |-> 0,
     served |-> "none", exc |-> NoExc, reqlog |-> <<>>, pages |-> <<>>,
     shape |-> "full", total |-> None]

\* ReqPos read from one params dict that all callers share
ReqPos_SharedParams(params) ==
    IF run[1].params.hasCursor THEN run[1].params.cursor
    ELSE run[1].params.start

\* the position a request asks for: the offset, or the cursor token
ReqPos(params) == IF params.hasCursor THEN params.cursor ELSE params.start

\* get_content(url, api, params) is called: the request is outstanding
SendRequest(rr) ==
    [rr EXCEPT !.pc = "wait", !.reqlog = Append(@, ReqPos(rr.params))]

\* the locals of __init__ go out of scope
DropLocals(rr) ==
    [rr EXCEPT !.data = None, !.hdr = None, !.next = None, !.i = 0,
               !.n_chunks = 0]

\* an exception leaves __init__
Failed(rr, e) == [DropLocals(rr) EXCEPT !.pc = "failed", !.exc = e]

\* lines 72-75: the message holds the count found and the ceiling
QueryError(n) ==
    [kind |-> "ScopusQueryError", count |-> n, ceiling |-> SEARCH_MAX_ENTRIES]

Out(rr, f) == [run |-> rr, file |-> f]

\* lines 40-61: the checks, the file age, then the cache hit or the first request
BeginStep(rr, f, t, isSearch) ==
    LET chk == RefreshCheck(rr.refresh) IN
    IF chk # "ok" THEN Failed(rr, Exc(chk))
    ELSE LET age == CheckFileAge(rr.refresh, f, t)
             r1 == [rr EXCEPT !.refresh = BoolVal(age.refresh)]
         IN  IF f.exists /\ ~age.refresh
             THEN LET c == ReadCache(isSearch, f.text)
                      r2 == [r1 EXCEPT !.mdate = age.mod_ts]
                  IN  IF c.ok
                      THEN [r2 EXCEPT !.pc = "done", !.served = "cache",
                                      !.json = c.json, !.n = c.n]
                      ELSE Failed(r2, Exc("JSONDecodeError"))
             ELSE SendRequest(r1)

\* Persist without the test of download at line 111
Persist_AlwaysWrite(rr, f, t, items) ==
    Out([DropLocals(rr) EXCEPT !.pc = "done", !.served = "network",
                               !.mdate = Some(t), !.header = rr.hdr],
        WriteCache(items, t))

\* lines 108-113: the private variables, then the write unless download=False
Persist(rr, f, t, items) ==
    Out([DropLocals(rr) EXCEPT !.pc = "done", !.served = "network",
                               !.mdate = Some(t), !.header = rr.hdr],
        IF rr.download THEN WriteCache(items, t) ELSE f)

\* lines 99-100, then the write
Finish(rr, f, t) ==
    Persist([rr EXCEPT !.json = rr.data.v], f, t, rr.data.v.v)

\* LoopHead without lines 90-91: the cursor of the first request is sent again
LoopHead_StaleCursor(rr, f, t) ==
    IF rr.i < rr.n_chunks
    THEN IF rr.params.hasCursor
         THEN Out(SendRequest(rr), f)
         ELSE Out(SendRequest([rr EXCEPT !.params.start = @ + rr.params.count]), f)
    ELSE Finish(rr, f, t)

\* LoopHead with the pages received so far written before each request
LoopHead_WriteEachPage(rr, f, t) ==
    IF rr.i < rr.n_chunks
    THEN IF rr.params.hasCursor
         THEN IF rr.next.has
              THEN Out(SendRequest([rr EXCEPT !.params.cursor = rr.next.v]),
                       WriteCache(rr.data.v.v, t))
              ELSE Out(Failed(rr, Exc("KeyError")), f)
         ELSE Out(SendRequest([rr EXCEPT !.params.start = @ + rr.params.count]),
                  WriteCache(rr.data.v.v, t))
    ELSE Finish(rr, f, t)

\* lines 88-96: the head of the loop over range(1, n_chunks)
LoopHead(rr, f, t) ==
    IF rr.i < rr.n_chunks
    THEN IF rr.params.hasCursor
         THEN IF rr.next.has
              THEN Out(SendRequest([rr EXCEPT !.params.cursor = rr.next.v]), f)
              ELSE Out(Failed(rr, Exc("KeyError")), f)
         ELSE Out(SendRequest([rr EXCEPT !.params.start = @ + rr.params.count]), f)
    ELSE Finish(rr, f, t)

\* TooLarge with >= for >
TooLarge_AtCeiling(params, n) == ~params.hasCursor /\ n >= SEARCH_MAX_ENTRIES

\* TooLarge without the exemption of cursor requests
TooLarge_NoExemption(params, n) == n > SEARCH_MAX_ENTRIES

\* lines 69-70: cursor_exists = "cursor" in params; the results size check
TooLarge(params, n) == ~params.hasCursor /\ n > SEARCH_MAX_ENTRIES

\* Extend putting the new page in front
Extend_Prepend(data, entries) == entries \o data

\* line 98: data.extend(...)
Extend(data, entries) == data \o entries

\* res.get('search-results', {}).get('entry', [])
EntryOf(resp) == IF resp.entry.has THEN resp.entry.v ELSE <<>>

\* lines 62-106: the first response
FirstResponse(rr, f, t, isSearch, resp) ==
    LET r0 == [rr EXCEPT !.hdr = Some(resp.hdr), !.total = resp.total,
                         !.pages = Append(@, EntryOf(resp))]
    IN
    IF isSearch
    THEN LET n == IF resp.total.has THEN resp.total.v ELSE 0
             r1 == [r0 EXCEPT !.n = Some(n), !.next = resp.next]
         IN  IF TooLarge(rr.params, n)
             THEN Out(Failed(r1, QueryError(n)), f)
             ELSE IF rr.download
                  THEN LoopHead(
                         [r1 EXCEPT !.json = JList(<<>>),
                                    !.data = Some(IF n = 0 THEN JStr
                                                  ELSE JList(EntryOf(resp))),
                                    !.i = 1,
                                    !.n_chunks = Ceil(n, rr.params.count)],
                         f, t)
                  ELSE Persist([r1 EXCEPT !.json = JList(<<>>)], f, t, <<>>)
    ELSE Persist([r0 EXCEPT !.json = JDoc(resp.doc)], f, t, <<resp.doc>>)

\* lines 96-99: the response to a request of the loop
NextResponse(rr, f, t, resp) ==
    LoopHead([rr EXCEPT !.hdr = Some(resp.hdr),
                        !.pages = Append(@, EntryOf(resp)),
                        !.next = resp.next,
                        !.data = Some(JList(Extend(rr.data.v.v, EntryOf(resp)))),
                        !.i = @ + 1],
             f, t)

----------------------------------------------------------------------------
\* The queries of an object that __init__ has returned

\* what a query returns: a value or None
Ret(x) == [kind |-> "value", v |-> x]
RetNone == [kind |-> "none", v |-> <<>>]
Raised(e) == [kind |-> e, v |-> <<>>]

\* int() of a decimal string
ParseInt(s) == s.digits

\* strftime('%Y-%m-%d %H:%M:%S', localtime(date))
FormatTime(epoch) == [t |-> "str", time |-> epoch]

\* get_key_remaining_quota: the header as it came, or None when the object
\* has no _header
GetKeyRemainingQuota(obj) ==
    IF obj.header.has THEN Ret(obj.header.v.remaining) ELSE RetNone

\* GetKeyResetTime without the handler of AttributeError
GetKeyResetTime_NoHandler(obj) ==
    IF obj.header.has THEN Ret(FormatTime(ParseInt(obj.header.v.reset)))
    ELSE Raised("AttributeError")

\* get_key_reset_time
GetKeyResetTime(obj) ==
    IF obj.header.has THEN Ret(FormatTime(ParseInt(obj.header.v.reset)))
    ELSE RetNone

\* get_cache_file_age: int((time() - self._mdate) / 86400)
GetCacheFileAge(obj, t) == TruncDiv(t - obj.mdate.v, Day)

\* get_cache_file_mdate
GetCacheFileMdate(obj) == FormatTime(obj.mdate.v)

----------------------------------------------------------------------------
\* The simulated service behind get_content()

Shapes == {"full", "short", "noentry"}

\* the entries of the page at position pos of a result set of `total` entries
ServicePage(total, pos, count, shape) ==
    LET full == IF total = 0 THEN <<ErrEntry>>
                ELSE Range(pos + 1, Min(pos + count, total))
    IN  CASE shape = "full" -> Some(full)
          [] shape = "short" -> Some(SubSeq(full, 1, Len(full) - 1))
          [] OTHER -> None

\* The service answers the request that is outstanding.  rr.total and rr.shape
\* are the service's side: the count it reports (from the first page on) and
\* the shape of the pages it serves.
ServiceResponse(rr, total, doc) ==
    LET pos == ReqPos(rr.params)
        first == Len(rr.pages) = 0
        rep == IF first THEN total ELSE rr.total
        tot == IF rep.has THEN rep.v ELSE 0
    IN  [total |-> IF first THEN total ELSE rr.total,
         entry |-> ServicePage(tot, pos, rr.params.count, rr.shape),
         next |-> IF rr.params.hasCursor THEN Some(pos + rr.params.count) ELSE None,
         hdr |-> ResponseHeaders(Len(rr.reqlog)),
         doc |-> doc]

Totals == {None} \cup {Some(n) : n \in 0..MaxTotal}

----------------------------------------------------------------------------
\* Actions

TypeOK ==
    /\ now \in 0..(MaxTicks * TickStep)
    /\ active \subseteq Runs
    /\ search \in [Runs -> BOOLEAN]
    /\ \A r \in Runs : run[r].pc \in {"idle", "called", "wait", "done", "failed"}

Init ==
    /\ now = 0
    /\ file = [r \in Runs |-> NoFile]
    /\ run = [r \in Runs |-> IdleRun]
    /\ search \in [Runs -> BOOLEAN]
    /\ active = {1}
    /\ \A r \in Runs \ active : search[r]
    /\ meta = NoMeta
    /\ metrics = IdleMetrics

\* the object and the arguments of a call
CallRecord(x, d, c, s, k, sh) ==
    [IdleRun EXCEPT !.pc = "called", !.refresh = x, !.policy = x,
                    !.download = d, !.shape = sh,
                    !.params = [start |-> s, count |-> k,
                                hasCursor |-> c, cursor |-> 0]]

\* a subclass sets self._refresh and calls Base.__init__ with its params
Call(r) ==
    /\ r \in active
    /\ run[r].pc = "idle"
    /\ \E x \in RefreshValues, d \in BOOLEAN, c \in BOOLEAN,
          s \in 0..MaxStart, k \in 1..MaxCount, sh \in Shapes :
          /\ ~search[r] => (~c /\ s = 0 /\ k = 1 /\ sh = "full")
          /\ c => s = 0
          /\ run' = [run EXCEPT ![r] = CallRecord(x, d, c, s, k, sh)]
    /\ UNCHANGED <<now, file, search, active, meta, metrics>>

Begin(r) ==
    /\ run[r].pc = "called"
    /\ run' = [run EXCEPT ![r] = BeginStep(run[r], file[r], now, search[r])]
    /\ UNCHANGED <<now, file, search, active, meta, metrics>>

\* get_content() returns a response: lines 62-113 up to the next request
ReceiveStep(r) ==
    /\ run[r].pc = "wait"
    /\ \E total \in (IF search[r] /\ Len(run[r].pages) = 0 THEN Totals ELSE {None}),
          doc \in (IF search[r] THEN {ErrEntry} ELSE RetrievalDocs) :
          LET resp == ServiceResponse(run[r], total, doc)
              out == IF Len(run[r].pages) = 0
                     THEN FirstResponse(run[r], file[r], now, search[r], resp)
                     ELSE NextResponse(run[r], file[r], now, resp)
          IN  /\ run' = [run EXCEPT ![r] = out.run]
              /\ file' = [file EXCEPT ![r] = out.file]
    /\ UNCHANGED <<now, search, active>>

Receive(r) ==
    /\ ReceiveStep(r)
    /\ UNCHANGED <<meta, metrics>>

\* FetchFail with the request sent once more when get_content() raises
FetchFail_Retry(r) ==
    /\ run[r].pc = "wait"
    /\ run' = [run EXCEPT ![r] = SendRequest(run[r])]
    /\ UNCHANGED <<now, file, search, active, meta, metrics>>

\* get_content() raises: nothing catches it
FetchFail(r) ==
    /\ run[r].pc = "wait"
    /\ run' = [run EXCEPT ![r] = Failed(run[r], Exc("TransportError"))]
    /\ UNCHANGED <<now, file, search, active, meta, metrics>>

\* the caller drops the object, or has seen the exception
Release(r) ==
    /\ run[r].pc \in {"done", "failed"}
    /\ run' = [run EXCEPT ![r] = IdleRun]
    /\ UNCHANGED <<now, file, search, active, meta, metrics>>

\* No object is being constructed by run r, or it waits for a response.
Quiet(r) == run[r].pc \in {"idle", "wait"}
AtRest(r) == run[r].pc = "idle"

\* time passes
Tick ==
    /\ \A r \in Runs : Quiet(r)
    /\ now < MaxTicks * TickStep
    /\ now' = now + TickStep
    /\ UNCHANGED <<file, run, search, active, meta, metrics>>

\* the cache directory is an ordinary directory: a file's modification time
\* can be set from outside (a copy, a restore, a clock that was wrong)
Touch(r) ==
    /\ r \in active
    /\ AtRest(r)
    /\ file[r].exists
    /\ \E k \in 0..MaxTicks :
          file' = [file EXCEPT ![r].mtime = k * TickStep]
    /\ UNCHANGED <<now, run, search, active, meta, metrics>>

\* a write that was interrupted leaves a last line that is no JSON document
Corrupt(r) ==
    /\ r \in active
    /\ AtRest(r)
    /\ file[r].exists
    /\ file' = [file EXCEPT ![r].text = [@ EXCEPT ![Len(@)] = BadSeg]]
    /\ UNCHANGED <<now, run, search, active, meta, metrics>>

\* eviction is manual: the file is deleted from outside
Remove(r) ==
    /\ r \in active
    /\ AtRest(r)
    /\ file[r].exists
    /\ file' = [file EXCEPT ![r] = NoFile]
    /\ UNCHANGED <<now, run, search, active, meta, metrics>>

Next ==
    \/ \E r \in Runs : Call(r)
    \/ \E r \in Runs : Begin(r)
    \/ \E r \in Runs : Receive(r)
    \/ \E r \in Runs : FetchFail(r)
    \/ \E r \in Runs : Release(r)
    \/ Tick
    \/ \E r \in Runs : Touch(r)
    \/ \E r \in Runs : Corrupt(r)
    \/ \E r \in Runs : Remove(r)

Spec == Init /\ [][Next]_vars

----------------------------------------------------------------------------
\* One process from its start: the cache directory holds what earlier
\* processes wrote, and meta follows the responses the process receives.
\* The process constructs its objects one after the other and may hold
\* several of them at a time.

\* the files an earlier process may have left at a path
LeftFiles(isSearch) ==
    {NoFile} \cup
    (IF isSearch
     THEN {WriteCache(Range(1, n), 0) : n \in 0..MaxCount}
     ELSE {WriteCache(<<d>>, 0) : d \in RetrievalDocs})

InitProcess ==
    /\ now = 0
    /\ search \in [Runs -> BOOLEAN]
    /\ active = Runs
    /\ file \in [Runs -> LeftFiles(TRUE) \cup LeftFiles(FALSE)]
    /\ \A r \in Runs : file[r] \in LeftFiles(search[r])
    /\ run = [r \in Runs |-> IdleRun]
    /\ meta = NoMeta
    /\ metrics = IdleMetrics

\* a response arrives in the process: meta.last is resp.headers of the last
\* request of the last run that ended with its result from the service
ReceiveInProcess(r) ==
    /\ ReceiveStep(r)
    /\ meta' = [completed |-> TRUE,
                last |-> IF run'[r].pc = "done" THEN run'[r].header
                         ELSE meta.last]
    /\ UNCHANGED metrics

\* The process is single-threaded: a constructor is called, with a boolean
\* refresh, when no other constructor is running.  The objects returned are
\* kept.
CallInProcess(r) ==
    /\ \A q \in Runs \ {r} : run[q].pc \in {"idle", "done", "failed"}
    /\ run[r].pc = "idle"
    /\ \E b \in BOOLEAN, d \in BOOLEAN, c \in BOOLEAN, k \in 1..MaxCount :
          /\ ~search[r] => (~c /\ k = 1)
          /\ run' = [run EXCEPT
                       ![r] = CallRecord(BoolVal(b), d, c, 0, k, "full")]
    /\ UNCHANGED <<now, file, search, active, meta, metrics>>

NextProcess ==
    \/ \E r \in Runs : CallInProcess(r)
    \/ \E r \in Runs : Begin(r)
    \/ \E r \in Runs : ReceiveInProcess(r)
    \/ \E r \in Runs : FetchFail(r)

SpecProcess == InitProcess /\ [][NextProcess]_vars

----------------------------------------------------------------------------
\* Two descriptors with different cache paths, fetched at the same time by
\* two threads of one process over an empty cache directory.

InitPair ==
    /\ now = 0
    /\ file = [r \in Runs |-> NoFile]
    /\ run = [r \in Runs |-> IdleRun]
    /\ search \in [Runs -> BOOLEAN]
    /\ active = Runs
    /\ meta = NoMeta
    /\ metrics = IdleMetrics

\* each thread constructs one object, with a boolean refresh
CallPair(r) ==
    /\ r \in active
    /\ run[r].pc = "idle"
    /\ \E b \in BOOLEAN, d \in BOOLEAN, c \in BOOLEAN, k \in 1..MaxCount :
          /\ ~search[r] => (~c /\ k = 1)
          /\ run' = [run EXCEPT
                       ![r] = CallRecord(BoolVal(b), d, c, 0, k, "full")]
    /\ UNCHANGED <<now, file, search, active, meta, metrics>>

NextPair ==
    \/ \E r \in Runs : CallPair(r)
    \/ \E r \in Runs : Begin(r)
    \/ \E r \in Runs : Receive(r)
    \/ \E r \in Runs : FetchFail(r)

SpecPair == InitPair /\ [][NextPair]_vars

\* The same construction with nothing else running: lines 40-113 from the
\* call to the end, the service reporting `total` entries (or sending `doc`)
\* and get_content() raising on request number failAt (0: never).
RECURSIVE Alone(_, _, _, _, _, _, _)
Alone(rr, f, t, isSearch, total, doc, failAt) ==
    IF rr.pc = "called"
    THEN Alone(BeginStep(rr, f, t, isSearch), f, t, isSearch, total, doc, failAt)
    ELSE IF rr.pc = "wait"
    THEN IF Len(rr.reqlog) = failAt
         THEN Out(Failed(rr, Exc("TransportError")), f)
         ELSE LET resp == ServiceResponse(rr, total, doc)
                  out == IF Len(rr.pages) = 0
                         THEN FirstResponse(rr, f, t, isSearch, resp)
                         ELSE NextResponse(rr, f, t, resp)
              IN  Alone(out.run, out.file, t, isSearch, total, doc, failAt)
    ELSE Out(rr, f)

----------------------------------------------------------------------------
\* The metrics calls of a CountryLookup object (scival/country_lookup.py)

CountryIds == {"124", "250"}
YearRanges == {"3yrs", "5yrs", "10yrs"}
MetricsMethods == {"Collaboration", "Percentile", "Other"}

\* the metricType values of each get_metrics_* method
MetricTypesOf(method) ==
    CASE method = "Collaboration" ->
             {"AcademicCorporateCollaboration", "Collaboration"}
      [] method = "Percentile" ->
             {"PublicationsInTopJournalPercentiles",
              "OutputsInTopCitationPercentiles"}
      [] OTHER -> {"ScholarlyOutput", "CitationCount"}

\* _get_metrics_rawdata(metricType, yearRange, country_ids, ...) up to its
\* call of get_content: the params of the request
GetMetricsRawdata(id, metricType, yearRange, country_ids) ==
    [countryIds |-> IF country_ids = "" THEN id ELSE country_ids,
     metricTypes |-> metricType,
     yearRange |-> yearRange]

\* _for_advanced_metrics(metricType, yearRange, ..., country_ids, ...): line
\* 230 passes (country_ids, metricType, yearRange, ...) by position
ForAdvancedMetrics(id, metricType, yearRange, country_ids) ==
    LET ids == IF country_ids = "" THEN id ELSE country_ids
    IN  GetMetricsRawdata(id, ids, metricType, yearRange)

\* a CountryLookup object exists, with the id of its country
InitMetrics ==
    /\ now = 0
    /\ file = [r \in Runs |-> NoFile]
    /\ run = [r \in Runs |-> IdleRun]
    /\ search = [r \in Runs |-> TRUE]
    /\ active = {}
    /\ meta = NoMeta
    /\ \E c \in CountryIds : metrics = [IdleMetrics EXCEPT !.id = c]

\* get_metrics_Collaboration, get_metrics_Percentile or get_metrics_Other is
\* called; collabOk: collabType is one of the valid types of metricType
MetricsCall ==
    /\ metrics.pc = "idle"
    /\ \E m \in MetricsMethods, y \in YearRanges,
          c \in CountryIds \cup {""}, ok \in BOOLEAN :
          \E mt \in MetricTypesOf(m) :
             /\ m # "Collaboration" => ok
             /\ metrics' = [metrics EXCEPT !.pc = "called", !.method = m,
                                            !.metricType = mt, !.yearRange = y,
                                            !.country_ids = c, !.collabOk = ok,
                                            !.request = None]
    /\ UNCHANGED <<now, file, run, search, active, meta>>

\* the method runs up to get_content, or _check_args raises ValueError
MetricsRequest ==
    /\ metrics.pc = "called"
    /\ metrics' =
          IF metrics.method = "Collaboration" /\ ~metrics.collabOk
          THEN [metrics EXCEPT !.pc = "failed"]
          ELSE [metrics EXCEPT
                  !.pc = "sent",
                  !.request = Some(ForAdvancedMetrics(
                                 metrics.id, metrics.metricType,
                                 metrics.yearRange, metrics.country_ids))]
    /\ UNCHANGED <<now, file, run, search, active, meta>>

\* the response is returned to the caller, or the caller has seen the error
MetricsReturn ==
    /\ metrics.pc \in {"sent", "failed"}
    /\ metrics' = [IdleMetrics EXCEPT !.id = metrics.id]
    /\ UNCHANGED <<now, file, run, search, active, meta>>

NextMetrics == MetricsCall \/ MetricsRequest \/ MetricsReturn

SpecMetrics == InitMetrics /\ [][NextMetrics]_vars

----------------------------------------------------------------------------
\* Properties

\* the step of run r that runs lines 40-61
BeginOf(r) == run[r].pc = "called" /\ run'[r].pc # "called"

\* the step of run r that takes the first response
FirstReceiveOf(r) ==
    run[r].pc = "wait" /\ Len(run[r].pages) = 0 /\ Len(run'[r].pages) = 1

\* C1: with a boolean refresh, the run asks the Content Fetcher exactly when
\* refresh is true or the cache file does not exist; with refresh=false and
\* an existing file the run ends at once without any request.  Without a
\* cache file every refresh that passes the checks leads to a request.
C1_BooleanPolicy ==
    [][\A r \in Runs :
         BeginOf(r) =>
            /\ run[r].refresh.t = "bool" =>
                  /\ (~run[r].refresh.b /\ file[r].exists) =>
                        /\ run'[r].reqlog = <<>>
                        /\ run'[r].pc \in {"done", "failed"}
                  /\ (run[r].refresh.b \/ ~file[r].exists) =>
                        (Len(run'[r].reqlog) = 1 /\ run'[r].pc = "wait")
            /\ (RefreshCheck(run[r].refresh) = "ok" /\ ~file[r].exists) =>
                  (Len(run'[r].reqlog) = 1 /\ run'[r].pc = "wait")]_vars

\* a run with refresh=False was served from the existing file, no request made
C1_Witness ==
    \E r \in Runs :
        /\ run[r].pc = "done" /\ run[r].served = "cache"
        /\ run[r].policy = BoolVal(FALSE)
        /\ file[r].exists /\ run[r].reqlog = <<>>

\* C2 as claimed: for an integer refresh v and an existing file, the result is
\* v < floor((now - mtime) / 86400) + 1, also for a file dated in the future.
C2_FloorRule ==
    [][\A r \in Runs :
         (BeginOf(r) /\ run[r].refresh.t = "int" /\ file[r].exists) =>
            run'[r].refresh =
               BoolVal(run[r].refresh.v < ((now - file[r].mtime) \div Day) + 1)]_vars

\* C2 as amended: the quotient is rounded toward zero, which is the floor for
\* a file of the past and the ceiling for a file dated in the future.
C2_TruncRule ==
    [][\A r \in Runs :
         (BeginOf(r) /\ run[r].refresh.t = "int" /\ file[r].exists) =>
            LET d == now - file[r].mtime
                q == IF d >= 0 THEN d \div Day ELSE (d + Day - 1) \div Day
            IN  run'[r].refresh = BoolVal(run[r].refresh.v < q + 1)]_vars

\* a file dated half a day in the future was kept under refresh=1
C2_Witness ==
    \E r \in Runs :
        /\ run[r].pc = "done" /\ run[r].served = "cache"
        /\ run[r].policy = IntVal(1)
        /\ file[r].exists /\ file[r].mtime > now

\* C3: for an integer refresh v and an existing file of the past, the file is
\* refreshed exactly when the whole days since its modification exceed v.
C3_WholeDaysExceed ==
    [][\A r \in Runs :
         (BeginOf(r) /\ run[r].refresh.t = "int" /\ file[r].exists
            /\ file[r].mtime <= now) =>
            run'[r].refresh =
               BoolVal(((now - file[r].mtime) \div Day) > run[r].refresh.v)]_vars

\* C4: a refresh that is neither a bool nor convertible to an integer makes
\* the run fail with ValueError, before any request, the file unchanged.
C4_InvalidConfiguration ==
    [][\A r \in Runs :
         (BeginOf(r) /\ run[r].refresh.t \notin {"bool", "int"}) =>
            /\ run'[r].pc = "failed" /\ run'[r].exc.kind = "ValueError"
            /\ run'[r].reqlog = <<>> /\ file'[r] = file[r]]_vars

\* C5: an existing file that is not to be refreshed and does not parse is a
\* cache miss: the run goes to the Content Fetcher instead of failing.
C5_MalformedIsMiss ==
    [][\A r \in Runs :
         (/\ BeginOf(r) /\ RefreshCheck(run[r].refresh) = "ok"
          /\ file[r].exists
          /\ ~CheckFileAge(run[r].refresh, file[r], now).refresh
          /\ ~ReadCache(search[r], file[r].text).ok) =>
            (run'[r].pc = "wait" /\ Len(run'[r].reqlog) = 1)]_vars

\* the count a run's first page reported, 0 when the field is absent
Reported(rr) == IF rr.total.has THEN rr.total.v ELSE 0

\* the documents on the lines of a search cache file
FileEntries(f) ==
    LET ls == NonEmptyLines(f.text) IN [i \in 1..Len(ls) |-> ls[i].doc]

RECURSIVE Flatten(_)
\* the entries of the pages of a run, page after page
Flatten(ps) == IF ps = <<>> THEN <<>> ELSE Head(ps) \o Flatten(Tail(ps))

Max(a, b) == IF a >= b THEN a ELSE b

\* a search run that went to the network and ran to its end
SearchDone(r) ==
    search[r] /\ run[r].pc = "done" /\ run[r].served = "network"

\* C6: an offset search whose first page reports more than SEARCH_MAX_ENTRIES
\* fails with ScopusQueryError holding the count and the ceiling, download or
\* not, after exactly one request and without touching the file; a count up
\* to the ceiling does not fail.
C6_SizeCeiling ==
    [][\A r \in Runs :
         (FirstReceiveOf(r) /\ search[r] /\ ~run[r].params.hasCursor) =>
            LET n == Reported(run'[r]) IN
            /\ n > SEARCH_MAX_ENTRIES =>
                  /\ run'[r].pc = "failed"
                  /\ run'[r].exc = [kind |-> "ScopusQueryError", count |-> n,
                                    ceiling |-> SEARCH_MAX_ENTRIES]
                  /\ Len(run'[r].reqlog) = 1
                  /\ file'[r] = file[r]
            /\ n <= SEARCH_MAX_ENTRIES => run'[r].pc # "failed"]_vars

\* a count-only call (download=False) was refused over an existing file
C6_Witness ==
    \E r \in Runs :
        /\ run[r].pc = "failed" /\ run[r].exc.kind = "ScopusQueryError"
        /\ run[r].exc.count = SEARCH_MAX_ENTRIES + 1
        /\ ~run[r].download /\ file[r].exists /\ Len(run[r].reqlog) = 1

\* C7 as claimed: a cursor search never fails with ScopusQueryError, and with
\* download it makes ceil(n / count) requests in all and writes the result.
C7_CursorAllPages ==
    \A r \in Runs :
        (search[r] /\ run[r].params.hasCursor) =>
            /\ run[r].exc.kind # "ScopusQueryError"
            /\ (SearchDone(r) /\ run[r].download) =>
                  /\ Len(run[r].reqlog) = Ceil(run[r].n.v, run[r].params.count)
                  /\ file[r].exists /\ file[r].mtime = run[r].mdate.v
                  /\ FileEntries(file[r]) = run[r].json.v

\* C7 as amended: the first request is always made, so the requests are
\* max(1, ceil(n / count)).
C7_CursorExempt ==
    \A r \in Runs :
        (search[r] /\ run[r].params.hasCursor) =>
            /\ run[r].exc.kind # "ScopusQueryError"
            /\ (SearchDone(r) /\ run[r].download) =>
                  /\ Len(run[r].reqlog) =
                        Max(1, Ceil(run[r].n.v, run[r].params.count))
                  /\ file[r].exists /\ file[r].mtime = run[r].mdate.v
                  /\ FileEntries(file[r]) = run[r].json.v

\* a cursor search over the ceiling downloaded all its pages
C7_Witness ==
    \E r \in Runs :
        /\ SearchDone(r) /\ run[r].download /\ run[r].params.hasCursor
        /\ run[r].n.v > SEARCH_MAX_ENTRIES
        /\ Len(run[r].reqlog) >= 2 /\ file[r].exists
        /\ Len(FileEntries(file[r])) > SEARCH_MAX_ENTRIES

\* C8 as claimed: an offset search with download makes max(1, ceil(n / count))
\* requests, and what it returns and writes is the entries of its pages, page
\* after page.
C8_Concatenation ==
    \A r \in Runs :
        (SearchDone(r) /\ run[r].download /\ ~run[r].params.hasCursor) =>
            /\ Len(run[r].reqlog) = Max(1, Ceil(run[r].n.v, run[r].params.count))
            /\ run[r].json.v = Flatten(run[r].pages)
            /\ FileEntries(file[r]) = Flatten(run[r].pages)

\* C8 as amended: for a count of 0 the entries of the first page are dropped
\* and the result is empty.
C8_ConcatenationNonEmpty ==
    \A r \in Runs :
        (SearchDone(r) /\ run[r].download /\ ~run[r].params.hasCursor) =>
            LET want == IF run[r].n.v = 0 THEN <<>> ELSE Flatten(run[r].pages)
            IN  /\ Len(run[r].reqlog) =
                      Max(1, Ceil(run[r].n.v, run[r].params.count))
                /\ run[r].json.v = want
                /\ FileEntries(file[r]) = want

\* three entries came in over three pages and were written in that order
C8_Witness ==
    \E r \in Runs :
        /\ SearchDone(r) /\ run[r].download /\ ~run[r].params.hasCursor
        /\ Len(run[r].pages) = 3 /\ Len(run[r].reqlog) = 3
        /\ \A k \in 1..3 : Len(run[r].pages[k]) = 1
        /\ FileEntries(file[r]) = Flatten(run[r].pages)

\* C9 as claimed: a search run that writes the file writes as many entries as
\* its first page reported.
C9_CountEqualsTotal ==
    \A r \in Runs :
        (SearchDone(r) /\ run[r].download) =>
            Len(FileEntries(file[r])) = Reported(run[r])

\* page k of a run carried its full share of the n entries
FullShare(rr, k) ==
    Len(rr.pages[k]) =
        Min(rr.params.count, Max(0, Reported(rr) - (k - 1) * rr.params.count))

\* C9 as amended: a count of 0 writes an empty file, whatever the offset and
\* whatever the page carried; with a count above 0 the file holds the entries
\* the pages carried, and their number is the count when the first request
\* starts at 0 and every page carries its full share.
C9_CountWhenFull ==
    \A r \in Runs :
        (SearchDone(r) /\ run[r].download) =>
            /\ Reported(run[r]) = 0 => Len(FileEntries(file[r])) = 0
            /\ Reported(run[r]) > 0 =>
                  Len(FileEntries(file[r])) = Len(Flatten(run[r].pages))
            /\ (/\ Reported(run[r]) > 0
                /\ run[r].reqlog[1] = 0
                /\ \A k \in 1..Len(run[r].pages) : FullShare(run[r], k)) =>
                  Len(FileEntries(file[r])) = Reported(run[r])

\* an offset run from 0 wrote all SEARCH_MAX_ENTRIES entries, the last page
\* a partial one
C9_Witness ==
    \E r \in Runs :
        /\ SearchDone(r) /\ run[r].download /\ ~run[r].params.hasCursor
        /\ run[r].reqlog[1] = 0 /\ Reported(run[r]) = SEARCH_MAX_ENTRIES
        /\ run[r].params.count = 2
        /\ \A k \in 1..Len(run[r].pages) : FullShare(run[r], k)
        /\ Len(FileEntries(file[r])) = SEARCH_MAX_ENTRIES

\* the refresh values that pass the checks of lines 40-44
ValidPolicies == {x \in RefreshValues : RefreshCheck(x) = "ok"}

\* the next call of the same descriptor with refresh x, up to its first
\* request or its end
NextBegin(r, x) ==
    BeginStep(CallRecord(x, run'[r].download, run'[r].params.hasCursor,
                         run'[r].reqlog[1], run'[r].params.count,
                         run'[r].shape),
              file'[r], now', search[r])

\* the step that ends a search run with download=False
CountOnlyDone(r) ==
    /\ FirstReceiveOf(r) /\ search[r] /\ ~run[r].download
    /\ run'[r].pc = "done"

\* C10 as claimed: a count-only search makes one request, returns no entries
\* and the count, writes nothing, and the next call of the descriptor goes to
\* the Content Fetcher whatever its refresh and whatever file was there.
C10_CountOnlyRefetches ==
    [][\A r \in Runs :
         CountOnlyDone(r) =>
            /\ Len(run'[r].reqlog) = 1
            /\ run'[r].json = JList(<<>>) /\ run'[r].n = Some(Reported(run'[r]))
            /\ file'[r] = file[r]
            /\ \A x \in ValidPolicies : NextBegin(r, x).pc = "wait"]_vars

\* C10 as amended: the next call goes to the Content Fetcher when no file was
\* there; a file that was there stays, and a next call with refresh=False
\* makes no request.
C10_CountOnlyKeepsFile ==
    [][\A r \in Runs :
         CountOnlyDone(r) =>
            /\ Len(run'[r].reqlog) = 1
            /\ run'[r].json = JList(<<>>) /\ run'[r].n = Some(Reported(run'[r]))
            /\ file'[r] = file[r]
            /\ ~file[r].exists =>
                  \A x \in ValidPolicies : NextBegin(r, x).pc = "wait"
            /\ file[r].exists =>
                  /\ NextBegin(r, BoolVal(FALSE)).pc \in {"done", "failed"}
                  /\ NextBegin(r, BoolVal(FALSE)).reqlog = <<>>]_vars

\* a count-only run ended over a cache file that was there before it
C10_Witness ==
    \E r \in Runs :
        /\ SearchDone(r) /\ ~run[r].download
        /\ file[r].exists /\ Len(run[r].reqlog) = 1
        /\ run[r].json = JList(<<>>) /\ run[r].n.has

\* the step that ends a retrieval run
RetrievalDone(r) ==
    /\ FirstReceiveOf(r) /\ ~search[r]
    /\ run'[r].pc = "done"

\* C11 as claimed: download has no effect for a retrieval request.  The step
\* that takes the response ends with the same payload and the same cache file
\* as the same step with the other value of download, and the document is in
\* the cache file in both.
C11_DownloadNoEffect ==
    [][\A r \in Runs :
         RetrievalDone(r) =>
            LET doc == run'[r].json.v[1]
                other == FirstResponse([run[r] EXCEPT !.download = ~@],
                                       file[r], now, FALSE,
                                       ServiceResponse(run[r], None, doc))
            IN  /\ other.run.json = run'[r].json
                /\ other.file = file'[r]
                /\ file'[r] = WriteCache(<<doc>>, now)]_vars

\* the step of run r in which get_content() returns no response
NoResponseOf(r) ==
    /\ run[r].pc = "wait" /\ run'[r] # run[r]
    /\ run'[r].pages = run[r].pages

\* C12: when get_content() raises on a request, the first or a later one, the
\* run ends with that error, the failed request is not sent again and no
\* other request follows in the run, and the cache file is as it was when the
\* run began: no step of the run up to the failure has written it, so the
\* pages already received are not in it.
C12_FetcherFailure ==
    [][\A r \in Runs :
         /\ NoResponseOf(r) =>
               /\ run'[r].pc = "failed"
               /\ run'[r].exc = Exc("TransportError")
               /\ run'[r].reqlog = run[r].reqlog
               /\ file'[r] = file[r]
         /\ (run[r].pc \in {"called", "wait"} /\ run'[r].pc \in {"wait", "failed"})
               => file'[r] = file[r]
         /\ run[r].pc = "failed" => run'[r] \in {run[r], IdleRun}]_vars

\* the request for the second page or a later one has failed, over a cache
\* file that was there before the run
C12_Witness ==
    \E r \in Runs :
        /\ run[r].pc = "failed" /\ run[r].exc.kind = "TransportError"
        /\ Len(run[r].pages) >= 1
        /\ Len(run[r].reqlog) = Len(run[r].pages) + 1
        /\ file[r].exists

\* C13: as long as no request of the process has been answered, every object
\* the process holds was built from the cache, and both quota queries on it
\* return None without raising.
C13_NoRequestYet ==
    \A r \in Runs :
        (run[r].pc = "done" /\ ~meta.completed) =>
            /\ run[r].served = "cache"
            /\ GetKeyRemainingQuota(run[r]).kind = "none"
            /\ GetKeyResetTime(run[r]).kind = "none"

\* an object built from a file that an earlier process left, in a process
\* that has received no response
C13_Witness ==
    \E r \in Runs :
        /\ run[r].pc = "done" /\ run[r].served = "cache"
        /\ ~meta.completed /\ ~run[r].header.has

\* the two quota queries on obj return the values of the headers h
QuotaFrom(obj, h) ==
    /\ GetKeyRemainingQuota(obj).kind = "value"
    /\ GetKeyRemainingQuota(obj).v = h.remaining
    /\ GetKeyResetTime(obj).kind = "value"
    /\ GetKeyResetTime(obj).v = FormatTime(ParseInt(h.reset))

\* C14 as claimed: the headers are kept once for the process, so the quota
\* queries on any object the process holds return the values of the last
\* request of the last run that was served by the service: also on an object
\* built from the cache, and on an object of an earlier run.
C14_ProcessWide ==
    \A r \in Runs :
        (run[r].pc = "done" /\ meta.last.has) => QuotaFrom(run[r], meta.last.v)

\* the call of the same descriptor with refresh x that follows at once on an
\* object that was returned, up to its first request or its end
Refetch(r, x) ==
    BeginStep(CallRecord(x, run[r].download, run[r].params.hasCursor,
                         run[r].reqlog[1], run[r].params.count, run[r].shape),
              file[r], now, search[r])

\* a run served by the service with download=True has ended
Persisted(r) ==
    /\ run[r].pc = "done" /\ run[r].served = "network"
    /\ run[r].download

\* C15: after a run served by the service has written the cache file, the
\* call of the same descriptor with refresh=False that follows at once sends
\* no request and returns the same entries in the same order and number: for
\* a search, the empty result set included, and for a retrieval.
C15_RoundTrip ==
    \A r \in Runs :
        Persisted(r) =>
            LET again == Refetch(r, BoolVal(FALSE)) IN
            /\ again.pc = "done" /\ again.served = "cache"
            /\ again.reqlog = <<>>
            /\ again.json.v = run[r].json.v
            /\ Len(again.json.v) = Len(run[r].json.v)

\* a search that found nothing has written the empty file
C15_Witness ==
    \E r \in Runs :
        /\ Persisted(r) /\ search[r]
        /\ run[r].json = JStr /\ run[r].n = Some(0)
        /\ file[r].exists /\ file[r].text = <<EmptySeg>>
        /\ Refetch(r, BoolVal(FALSE)).json = JList(<<>>)

\* the step that ends a run served by the service, all its pages received
LastStepOf(r) ==
    /\ run[r].pc = "wait" /\ run'[r].pc = "done"
    /\ run'[r].served = "network"
    /\ Len(run'[r].pages) = Len(run'[r].reqlog)
    /\ search[r] =>
          Len(run'[r].reqlog) =
              Max(1, Ceil(Reported(run'[r]), run'[r].params.count))

\* C16: a step of a run changes the cache file, its text or its modification
\* time, only when it is the last step of a run with download=True that has
\* received all its pages.  A run served from the cache, a run that the size
\* check or get_content() ends, a run with download=False and every step
\* before the last leave the file as it is.
C16_WriteOnlyAtEnd ==
    [][\A r \in Runs :
         /\ (run'[r] # run[r] /\ file'[r] # file[r]) =>
               /\ LastStepOf(r) /\ run[r].download
               /\ file'[r] = WriteCache(run'[r].json.v, now)
         /\ (run'[r] # run[r] /\ ~(LastStepOf(r) /\ run[r].download)) =>
               file'[r] = file[r]]_vars

\* a run of several requests has written the cache file at its end, at a
\* time later than the start of the clock
C16_Witness ==
    \E r \in Runs :
        /\ Persisted(r) /\ Len(run[r].reqlog) >= 2
        /\ file[r] = WriteCache(run[r].json.v, now)
        /\ now > 0

\* C17 as claimed: on every object that was returned, the modification time
\* it holds, which get_cache_file_mdate formats and get_cache_file_age
\* measures from, is the time of the last write of the cache file of its
\* path: after a cache hit, after a run that wrote the file, and after a run
\* with download=False.
C17_MdateIsLastWrite ==
    \A r \in Runs :
        run[r].pc = "done" =>
            /\ file[r].exists
            /\ run[r].mdate = Some(file[r].mtime)
            /\ GetCacheFileMdate(run[r]) = FormatTime(file[r].mtime)
            /\ GetCacheFileAge(run[r], now) = TruncDiv(now - file[r].mtime, Day)

\* what run r would have done alone: the same call over the same (absent)
\* file, with the same answers of the service and the same failure
AloneOf(r) ==
    Alone(CallRecord(run[r].policy, run[r].download, run[r].params.hasCursor,
                     0, run[r].params.count, run[r].shape),
          NoFile, now, search[r], run[r].total,
          IF run[r].json.t = "doc" THEN run[r].json.v[1] ELSE ErrEntry,
          IF run[r].exc.kind = "TransportError" THEN Len(run[r].reqlog) ELSE 0)

\* C18: two runs on different cache paths whose requests and responses
\* interleave in any order do not disturb each other: each run that has ended
\* has sent the same requests, holds the same entries (and every other
\* attribute) and has left the same cache file as the same run alone.
C18_NoInterference ==
    \A r \in Runs :
        run[r].pc \in {"done", "failed"} =>
            /\ AloneOf(r).run.reqlog = run[r].reqlog
            /\ AloneOf(r).run.json = run[r].json
            /\ AloneOf(r).file = file[r]
            /\ AloneOf(r).run = run[r]

\* both runs have ended after several requests each, with different
\* sequences of requests, and both have written their files
C18_Witness ==
    /\ \A r \in Runs :
          /\ run[r].pc = "done" /\ Len(run[r].reqlog) >= 2
          /\ run[r].download /\ file[r].exists
    /\ run[1].reqlog # run[2].reqlog

\* C19: within one run the requests go out one after the other: at any time
\* at most one request has no response yet, so request k+1 is sent only after
\* response k has come.  Without a cursor, the k-th request after the first
\* asks for start + k * count; with a cursor, each request after the first
\* carries the token that the response before it held.
C19_Sequential ==
    \A r \in Runs :
        LET rr == run[r]
            outstanding == Len(rr.reqlog) - Len(rr.pages)
        IN  /\ outstanding \in {0, 1}
            /\ rr.pc = "wait" => outstanding = 1
            /\ rr.pc = "done" => outstanding = 0
            /\ ~rr.params.hasCursor =>
                  \A k \in 1..Len(rr.reqlog) :
                      rr.reqlog[k] = rr.reqlog[1] + (k - 1) * rr.params.count
            /\ (rr.pc = "wait" /\ rr.params.hasCursor /\ Len(rr.pages) >= 1) =>
                  /\ rr.next.has
                  /\ rr.reqlog[Len(rr.reqlog)] = rr.next.v
                  /\ rr.params.cursor = rr.next.v

\* the third request of a cursor run is out, with the token of the second
\* response
C19_Witness ==
    \E r \in Runs :
        /\ run[r].pc = "wait" /\ run[r].params.hasCursor
        /\ Len(run[r].reqlog) = 3 /\ Len(run[r].pages) = 2
        /\ run[r].next.has /\ run[r].reqlog[3] = run[r].next.v
        /\ run[r].reqlog[3] # run[r].reqlog[2]

\* C20 as claimed: the request of every metrics call has countryIds = the
\* country_ids argument (the id of the object when that is empty),
\* metricTypes = the metricType argument and yearRange = the yearRange
\* argument.
C20_ParameterMapping ==
    metrics.pc = "sent" =>
        /\ metrics.request.v.countryIds =
              (IF metrics.country_ids = "" THEN metrics.id
               ELSE metrics.country_ids)
        /\ metrics.request.v.metricTypes = metrics.metricType
        /\ metrics.request.v.yearRange = metrics.yearRange

====
